---- MODULE Spec2Model ----
(***************************************************************************)
(* Model of package io of go-sdk: the buffered, seekable reader bufReader  *)
(* (io/buffer.go), its chunk pool and the underlying forward-only reader.  *)
(*                                                                         *)
(* The three objects are kept in three variables, each a record with the   *)
(* fields of the Go struct:                                                *)
(*   b       the bufReader                                                 *)
(*   reader  the underlying io.ReadCloser (a testReader, generalised to    *)
(*           what the io.Reader contract allows: short reads, data         *)
(*           together with EOF, one transient error)                       *)
(*   pool    the Pool, as the counting testPool of the tests               *)
(* A method is a function from the "world" [b, reader, pool] to the world  *)
(* after the call plus the values returned; an action applies one method.  *)
(***************************************************************************)
EXTENDS Integers, Sequences, FiniteSets, TLC

\* ------------------------------------------------------------------ bounds
MaxLen == 3          \* longest source, in bytes
MaxBufSize == 2      \* largest chunk size of the pool
MaxP == 2            \* longest caller buffer handed to Read
NThreads == 2        \* goroutines that call the engine concurrently
MaxLenConc == 2      \* longest source read by concurrent callers
MaxLimit == 1        \* most chunks a bounded pool lends at a time
MaxLenGet == 1       \* longest source read through a bounded pool
MaxFuncs == 2        \* functions handed to one FuncManager

\* --------------------------------------------------------------- constants
SeekStart == 0
SeekCurrent == 1
SeekEnd == 2
BadWhence == 4       \* a whence that is none of the three above

NoErr == "nil"
EOF == "EOF"
ErrClosed == "closed reader"
ErrSeekerDisabled == "disabled seeker"
ErrSeekerOutOfRange == "out of range"
ErrSeekerInvalidWhence == "invalid whence"
ErrSrc == "source error"         \* any error of the source other than EOF
ErrSrcClose == "source close error"
ErrCanceled == "context canceled"   \* context.Canceled, from pool.Get
ErrBlocked == "blocked"          \* not an error: the call waits in pool.Get
ErrPanic == "panic"              \* nil dereference / index out of range
ErrAlreadyShutdown == "already shutdown"
ErrHang == "hang"                \* a loop that makes no progress

Min(x, y) == IF x < y THEN x ELSE y

\* the byte the source holds at offset i (all bytes distinct, so that a
\* delivered byte identifies the offset it came from)
ByteAt(i) == 100 + i

\* data[off .. off+n) of a byte sequence (offsets are 0-based as in Go)
Slice(data, off, n) == SubSeq(data, off + 1, off + n)

\* b, reader, pool: the bufReader, its source and its pool; rs: the
\* bufReadSeeker with its source; fm: the funcManager with the functions it
\* runs; th, mu: the calling goroutines and the holder of b.mu; ret, lpos,
\* onlyReads: the last call that returned and what the caller knows from
\* the calls so far
VARIABLES b, reader, pool, rs, fm, ret, lpos, onlyReads, th, mu

vars == <<b, reader, pool, rs, fm, ret, lpos, onlyReads, th, mu>>

\* an object the program under study has not built
None == <<>>

\* ------------------------------------------------------------------ Buffer
\* a nil *Buffer (chunk ids start at 1)
Nil == [id |-> 0, buffer |-> <<>>]

IsNil(buf) == buf.id = 0

\* ------------------------------------------------------- underlying reader
\* reader.Read(p) with len(p) = k >= 1
readerRead(r, k) ==
  IF r.errArmed /\ r.errMode = "bare" /\ r.pos = r.errAt
  THEN [reader |-> [r EXCEPT !.errArmed = FALSE, !.nreads = @ + 1],
        n |-> 0, bytes |-> <<>>, err |-> ErrSrc]
  ELSE IF r.pos = Len(r.data)
  THEN [reader |-> [r EXCEPT !.nreads = @ + 1], n |-> 0, bytes |-> <<>>, err |-> EOF]
  ELSE LET avail == Len(r.data) - r.pos
           lim == IF r.errArmed /\ r.errMode = "withdata" /\ r.errAt > r.pos
                  THEN r.errAt - r.pos ELSE avail
           m == Min(Min(k, r.maxN), lim)
           hitErr == r.errArmed /\ r.errMode = "withdata" /\ r.pos + m = r.errAt
           e == IF hitErr THEN ErrSrc
                ELSE IF r.eofWithData /\ r.pos + m = Len(r.data) THEN EOF
                ELSE NoErr
       IN [reader |-> [r EXCEPT !.pos = @ + m, !.nreads = @ + 1,
                                !.errArmed = IF hitErr THEN FALSE ELSE @],
           n |-> m, bytes |-> Slice(r.data, r.pos, m), err |-> e]

\* -------------------------------------------------------------------- pool
\* pool.Get(ctx): the pool hands out a chunk; the test pool counts it.
\* limit = 0 is the pool of the repository, which never blocks and ignores
\* ctx.  limit > 0 is a pool that lends at most limit chunks at a time: with
\* all of them lent, Get waits (ErrBlocked) until ctx is done and then
\* returns context.Canceled.
poolGet(p, ctxDone) ==
  IF p.limit > 0 /\ p.got - Len(p.puts) >= p.limit
  THEN [pool |-> p, buf |-> Nil, err |-> IF ctxDone THEN ErrCanceled ELSE ErrBlocked]
  ELSE [pool |-> [p EXCEPT !.got = @ + 1],
        buf |-> [id |-> p.got + 1, buffer |-> <<>>],
        err |-> NoErr]

\* Buffer.cleanUp(): pool.Put(buf)
cleanUp(p, buf) == [p EXCEPT !.puts = Append(@, buf.id)]

\* --------------------------------------------------------------- bufReader
getReaderPos(w) ==
  LET l == Len(w.b.buffer)
  IN IF l = 0 THEN 0
     ELSE (l - 1) * w.pool.bufSize + Len(w.b.buffer[l].buffer)

\* cleanUpBuffer that leaves the released chunks in the list
RECURSIVE cleanUpLoop_KeepsEntry(_, _, _)
cleanUpLoop_KeepsEntry(w, all, i) ==
  LET currentReaderPos == w.b.currentPos \div w.pool.bufSize
  IN IF i > Len(w.b.buffer)
     THEN [w EXCEPT !.b.buffer = <<>>]
     ELSE IF ~all /\ (i - 1) >= currentReaderPos
     THEN w
     ELSE IF IsNil(w.b.buffer[i])
     THEN cleanUpLoop_KeepsEntry(w, all, i + 1)
     ELSE cleanUpLoop_KeepsEntry([w EXCEPT !.pool = cleanUp(w.pool, w.b.buffer[i])],
                                 all, i + 1)

\* release the chunks before the one that holds currentPos (all = FALSE) or
\* every chunk (all = TRUE); i is the 1-based index of the loop
RECURSIVE cleanUpLoop(_, _, _)
cleanUpLoop(w, all, i) ==
  LET currentReaderPos == w.b.currentPos \div w.pool.bufSize
  IN IF i > Len(w.b.buffer)
     THEN [w EXCEPT !.b.buffer = <<>>]
     ELSE IF ~all /\ (i - 1) >= currentReaderPos
     THEN w
     ELSE IF IsNil(w.b.buffer[i])
     THEN cleanUpLoop(w, all, i + 1)
     ELSE cleanUpLoop([w EXCEPT !.pool = cleanUp(w.pool, w.b.buffer[i]),
                                !.b.buffer[i] = Nil],
                      all, i + 1)

cleanUpBuffer(w, all) == cleanUpLoop(w, all, 1)

\* copy data from buffer to p (len(p) = plen); n bytes copied so far, out
\* is p[:n]
RECURSIVE readToLoop(_, _, _, _)
readToLoop(w, plen, n, out) ==
  IF w.b.currentPos >= getReaderPos(w)
  THEN [w |-> w, n |-> n, bytes |-> out,
        err |-> IF w.b.isEofReached /\ n = 0 THEN EOF ELSE NoErr]
  ELSE IF n = plen
  THEN [w |-> w, n |-> n, bytes |-> out, err |-> NoErr]
  ELSE IF w.b.isClosed
  THEN [w |-> w, n |-> n, bytes |-> out, err |-> ErrClosed]
  ELSE LET idx == w.b.currentPos \div w.pool.bufSize
           currentPos == w.b.currentPos % w.pool.bufSize
       IN IF idx + 1 > Len(w.b.buffer) \/ IsNil(w.b.buffer[idx + 1])
             \/ currentPos > Len(w.b.buffer[idx + 1].buffer)
          THEN [w |-> w, n |-> n, bytes |-> out, err |-> ErrPanic]
          ELSE LET buf == w.b.buffer[idx + 1]
                   read == Min(plen - n, Len(buf.buffer) - currentPos)
               IN IF read = 0
                  THEN [w |-> w, n |-> n, bytes |-> out, err |-> ErrHang]
                  ELSE readToLoop([w EXCEPT !.b.currentPos = @ + read],
                                  plen, n + read,
                                  out \o Slice(buf.buffer, currentPos, read))

readTo(w, plen) == readToLoop(w, plen, 0, <<>>)

\* b.read that takes a new chunk from the pool for every source read
RECURSIVE readLoop_AlwaysGet(_, _, _, _)
readLoop_AlwaysGet(w, n, bytesRead, err) ==
  IF w.b.isEofReached
  THEN [w |-> w, n |-> bytesRead, err |-> EOF]
  ELSE IF err = EOF
  THEN [w |-> [w EXCEPT !.b.isEofReached = TRUE], n |-> bytesRead,
        err |-> IF bytesRead > 0 THEN NoErr ELSE EOF]
  ELSE IF err # NoErr
  THEN [w |-> w, n |-> bytesRead, err |-> err]
  ELSE IF n >= 0 /\ bytesRead >= n
  THEN [w |-> w, n |-> bytesRead, err |-> err]
  ELSE LET g == poolGet(w.pool, w.b.ctxCancelled)
       IN IF g.err # NoErr
          THEN [w |-> [w EXCEPT !.pool = g.pool], n |-> bytesRead,
                err |-> IF g.err = ErrCanceled THEN ErrClosed ELSE g.err]
          ELSE LET w1 == [w EXCEPT !.pool = g.pool,
                                   !.b.buffer = Append(@, g.buf)]
                   l1 == Len(w1.b.buffer)
                   r == readerRead(w1.reader, w1.pool.bufSize)
                   w2 == [w1 EXCEPT !.reader = r.reader,
                                    !.b.buffer[l1].buffer = @ \o r.bytes]
               IN readLoop_AlwaysGet(w2, n, bytesRead + r.n, r.err)

\* put data from underlying reader to buffer: read(n), n = -1 for "to EOF"
RECURSIVE readLoop(_, _, _, _)
readLoop(w, n, bytesRead, err) ==
  IF w.b.isEofReached
  THEN [w |-> w, n |-> bytesRead, err |-> EOF]
  ELSE IF err = EOF
  THEN [w |-> [w EXCEPT !.b.isEofReached = TRUE], n |-> bytesRead,
        err |-> IF bytesRead > 0 THEN NoErr ELSE EOF]
  ELSE IF err # NoErr
  THEN [w |-> w, n |-> bytesRead, err |-> err]
  ELSE IF n >= 0 /\ bytesRead >= n
  THEN [w |-> w, n |-> bytesRead, err |-> err]
  ELSE LET l == Len(w.b.buffer)
           last == IF l # 0 THEN w.b.buffer[l] ELSE Nil
           needGet == IsNil(last) \/ Len(last.buffer) = w.pool.bufSize
           g == poolGet(w.pool, w.b.ctxCancelled)
       IN IF needGet /\ g.err # NoErr
          THEN [w |-> [w EXCEPT !.pool = g.pool], n |-> bytesRead,
                err |-> IF g.err = ErrCanceled THEN ErrClosed ELSE g.err]
          ELSE LET w1 == IF needGet
                         THEN [w EXCEPT !.pool = g.pool,
                                        !.b.buffer = Append(@, g.buf)]
                         ELSE w
                   l1 == Len(w1.b.buffer)
                   buf == w1.b.buffer[l1]
                   r == readerRead(w1.reader, w1.pool.bufSize - Len(buf.buffer))
                   w2 == [w1 EXCEPT !.reader = r.reader,
                                    !.b.buffer[l1].buffer = @ \o r.bytes]
               IN readLoop(w2, n, bytesRead + r.n, r.err)

read(w, n) == readLoop(w, n, 0, NoErr)

\* seekTo without the assignment of currentPos when nothing had to be read
seekTo_KeepsPosInBuffer(w, abs) ==
  IF abs < 0
  THEN [w |-> w, pos |-> w.b.currentPos, err |-> ErrSeekerOutOfRange]
  ELSE LET bytesToRead == abs - getReaderPos(w)
           rd == IF bytesToRead > 0 THEN read(w, bytesToRead)
                 ELSE [w |-> w, n |-> 0, err |-> NoErr]
       IN IF rd.err # NoErr /\ rd.err # EOF
          THEN [w |-> rd.w, pos |-> rd.w.b.currentPos, err |-> rd.err]
          ELSE IF bytesToRead > 0 /\ rd.n < bytesToRead
          THEN [w |-> rd.w, pos |-> rd.w.b.currentPos, err |-> ErrSeekerOutOfRange]
          ELSE IF bytesToRead > 0
          THEN [w |-> [rd.w EXCEPT !.b.currentPos = abs], pos |-> abs, err |-> NoErr]
          ELSE [w |-> rd.w, pos |-> abs, err |-> NoErr]

\* seekTo with n <= bytesToRead for n < bytesToRead
seekTo_OffByOne(w, abs) ==
  IF abs < 0
  THEN [w |-> w, pos |-> w.b.currentPos, err |-> ErrSeekerOutOfRange]
  ELSE LET bytesToRead == abs - getReaderPos(w)
           rd == IF bytesToRead > 0 THEN read(w, bytesToRead)
                 ELSE [w |-> w, n |-> 0, err |-> NoErr]
       IN IF rd.err # NoErr /\ rd.err # EOF
          THEN [w |-> rd.w, pos |-> rd.w.b.currentPos, err |-> rd.err]
          ELSE IF bytesToRead > 0 /\ rd.n <= bytesToRead
          THEN [w |-> rd.w, pos |-> rd.w.b.currentPos, err |-> ErrSeekerOutOfRange]
          ELSE [w |-> [rd.w EXCEPT !.b.currentPos = abs], pos |-> abs, err |-> NoErr]

\* seekTo without the check that the read-ahead reached abs
seekTo_NoShortCheck(w, abs) ==
  IF abs < 0
  THEN [w |-> w, pos |-> w.b.currentPos, err |-> ErrSeekerOutOfRange]
  ELSE LET bytesToRead == abs - getReaderPos(w)
           rd == IF bytesToRead > 0 THEN read(w, bytesToRead)
                 ELSE [w |-> w, n |-> 0, err |-> NoErr]
       IN IF rd.err # NoErr /\ rd.err # EOF
          THEN [w |-> rd.w, pos |-> rd.w.b.currentPos, err |-> rd.err]
          ELSE [w |-> [rd.w EXCEPT !.b.currentPos = abs], pos |-> abs, err |-> NoErr]

\* what a call that waits in pool.Get has to remember to go on: the
\* argument n and the count bytesRead of the b.read it is in, and the locals
\* of the method that called it
Waiting(kind, n, bytesRead, abs, offset, plen, got, bytes) ==
  [kind |-> kind, n |-> n, bytesRead |-> bytesRead, abs |-> abs,
   offset |-> offset, plen |-> plen, got |-> got, bytes |-> bytes]

\* Seek from the return of b.read(bytesToRead) on (rd is what it returned)
seekToTail(abs, bytesToRead, rd) ==
  IF rd.err = ErrBlocked
  THEN [w |-> rd.w, pos |-> rd.w.b.currentPos, err |-> ErrBlocked,
        k |-> Waiting("seekTo", bytesToRead, rd.n, abs, 0, 0, 0, <<>>)]
  ELSE IF rd.err # NoErr /\ rd.err # EOF
  THEN [w |-> rd.w, pos |-> rd.w.b.currentPos, err |-> rd.err]
  ELSE IF bytesToRead > 0 /\ rd.n < bytesToRead
  THEN [w |-> rd.w, pos |-> rd.w.b.currentPos, err |-> ErrSeekerOutOfRange]
  ELSE [w |-> [rd.w EXCEPT !.b.currentPos = abs], pos |-> abs, err |-> NoErr]

\* seekTo that gives the chunks back when the target is out of range
seekTo_ReleasesOnFailure(w, abs) ==
  IF abs < 0
  THEN [w |-> w, pos |-> w.b.currentPos, err |-> ErrSeekerOutOfRange]
  ELSE LET bytesToRead == abs - getReaderPos(w)
           rd == IF bytesToRead > 0 THEN read(w, bytesToRead)
                 ELSE [w |-> w, n |-> 0, err |-> NoErr]
           r == seekToTail(abs, bytesToRead, rd)
       IN IF r.err = ErrSeekerOutOfRange
          THEN [r EXCEPT !.w = cleanUpBuffer(r.w, TRUE)]
          ELSE r

\* the part of Seek that runs under b.mu, after abs has been resolved
seekTo(w, abs) ==
  IF abs < 0
  THEN [w |-> w, pos |-> w.b.currentPos, err |-> ErrSeekerOutOfRange]
  ELSE LET bytesToRead == abs - getReaderPos(w)
           rd == IF bytesToRead > 0 THEN read(w, bytesToRead)
                 ELSE [w |-> w, n |-> 0, err |-> NoErr]
       IN seekToTail(abs, bytesToRead, rd)

\* Seek with whence End from the return of b.read(-1) on
seekEndTail(offset, rd) ==
  IF rd.err = ErrBlocked
  THEN [w |-> rd.w, pos |-> rd.w.b.currentPos, err |-> ErrBlocked,
        k |-> Waiting("seekEnd", -1, rd.n, 0, offset, 0, 0, <<>>)]
  ELSE IF rd.err # NoErr /\ rd.err # EOF
  THEN [w |-> rd.w, pos |-> rd.w.b.currentPos, err |-> rd.err]
  ELSE seekTo(rd.w, getReaderPos(rd.w) + offset)

\* the part of Seek that runs under b.mu
seekLocked(w, offset, whence) ==
  IF whence = SeekStart
  THEN seekTo(w, offset)
  ELSE IF whence = SeekCurrent
  THEN seekTo(w, w.b.currentPos + offset)
  ELSE IF whence = SeekEnd
  THEN IF offset > 0
       THEN [w |-> w, pos |-> w.b.currentPos, err |-> ErrSeekerOutOfRange]
       ELSE seekEndTail(offset, read(w, -1))
  ELSE [w |-> w, pos |-> w.b.currentPos, err |-> ErrSeekerInvalidWhence]

\* Seek, resumed when the pool.Get it waits in returns
seekResume(w, k) ==
  LET rd == readLoop(w, k.n, k.bytesRead, NoErr)
  IN IF k.kind = "seekEnd" THEN seekEndTail(k.offset, rd)
     ELSE seekToTail(k.abs, k.n, rd)

\* Seek that resolves whence Current from the reader position
Seek_CurrentFromReaderPos(w, offset, whence) ==
  IF w.b.isClosed
  THEN [w |-> w, pos |-> w.b.currentPos, err |-> ErrClosed]
  ELSE IF w.b.isSeekerDisabled
  THEN [w |-> w, pos |-> w.b.currentPos, err |-> ErrSeekerDisabled]
  ELSE IF whence = SeekStart
  THEN seekTo(w, offset)
  ELSE IF whence = SeekCurrent
  THEN seekTo(w, getReaderPos(w) + offset)
  ELSE IF whence = SeekEnd
  THEN IF offset > 0
       THEN [w |-> w, pos |-> w.b.currentPos, err |-> ErrSeekerOutOfRange]
       ELSE LET rd == read(w, -1)
            IN IF rd.err # NoErr /\ rd.err # EOF
               THEN [w |-> rd.w, pos |-> rd.w.b.currentPos, err |-> rd.err]
               ELSE seekTo(rd.w, getReaderPos(rd.w) + offset)
  ELSE [w |-> w, pos |-> w.b.currentPos, err |-> ErrSeekerInvalidWhence]

\* Seek that returns position 0 with ErrSeekerInvalidWhence
Seek_ZeroOnInvalidWhence(w, offset, whence) ==
  IF w.b.isClosed
  THEN [w |-> w, pos |-> w.b.currentPos, err |-> ErrClosed]
  ELSE IF w.b.isSeekerDisabled
  THEN [w |-> w, pos |-> w.b.currentPos, err |-> ErrSeekerDisabled]
  ELSE IF whence = SeekStart
  THEN seekTo(w, offset)
  ELSE IF whence = SeekCurrent
  THEN seekTo(w, w.b.currentPos + offset)
  ELSE IF whence = SeekEnd
  THEN IF offset > 0
       THEN [w |-> w, pos |-> w.b.currentPos, err |-> ErrSeekerOutOfRange]
       ELSE LET rd == read(w, -1)
            IN IF rd.err # NoErr /\ rd.err # EOF
               THEN [w |-> rd.w, pos |-> rd.w.b.currentPos, err |-> rd.err]
               ELSE seekTo(rd.w, getReaderPos(rd.w) + offset)
  ELSE [w |-> w, pos |-> 0, err |-> ErrSeekerInvalidWhence]

\* Seek that resolves whence End from the bytes fetched so far
Seek_EndWithoutRead(w, offset, whence) ==
  IF w.b.isClosed
  THEN [w |-> w, pos |-> w.b.currentPos, err |-> ErrClosed]
  ELSE IF w.b.isSeekerDisabled
  THEN [w |-> w, pos |-> w.b.currentPos, err |-> ErrSeekerDisabled]
  ELSE IF whence = SeekStart
  THEN seekTo(w, offset)
  ELSE IF whence = SeekCurrent
  THEN seekTo(w, w.b.currentPos + offset)
  ELSE IF whence = SeekEnd
  THEN IF offset > 0
       THEN [w |-> w, pos |-> w.b.currentPos, err |-> ErrSeekerOutOfRange]
       ELSE seekTo(w, getReaderPos(w) + offset)
  ELSE [w |-> w, pos |-> w.b.currentPos, err |-> ErrSeekerInvalidWhence]

\* Seek without the isSeekerDisabled check
Seek_NoDisabledCheck(w, offset, whence) ==
  IF w.b.isClosed
  THEN [w |-> w, pos |-> w.b.currentPos, err |-> ErrClosed]
  ELSE IF whence = SeekStart
  THEN seekTo(w, offset)
  ELSE IF whence = SeekCurrent
  THEN seekTo(w, w.b.currentPos + offset)
  ELSE IF whence = SeekEnd
  THEN IF offset > 0
       THEN [w |-> w, pos |-> w.b.currentPos, err |-> ErrSeekerOutOfRange]
       ELSE LET rd == read(w, -1)
            IN IF rd.err # NoErr /\ rd.err # EOF
               THEN [w |-> rd.w, pos |-> rd.w.b.currentPos, err |-> rd.err]
               ELSE seekTo(rd.w, getReaderPos(rd.w) + offset)
  ELSE [w |-> w, pos |-> w.b.currentPos, err |-> ErrSeekerInvalidWhence]

\* Seek that checks isSeekerDisabled before isClosed
Seek_DisabledBeforeClosed(w, offset, whence) ==
  IF w.b.isSeekerDisabled
  THEN [w |-> w, pos |-> w.b.currentPos, err |-> ErrSeekerDisabled]
  ELSE IF w.b.isClosed
  THEN [w |-> w, pos |-> w.b.currentPos, err |-> ErrClosed]
  ELSE IF whence = SeekStart
  THEN seekTo(w, offset)
  ELSE IF whence = SeekCurrent
  THEN seekTo(w, w.b.currentPos + offset)
  ELSE IF whence = SeekEnd
  THEN IF offset > 0
       THEN [w |-> w, pos |-> w.b.currentPos, err |-> ErrSeekerOutOfRange]
       ELSE LET rd == read(w, -1)
            IN IF rd.err # NoErr /\ rd.err # EOF
               THEN [w |-> rd.w, pos |-> rd.w.b.currentPos, err |-> rd.err]
               ELSE seekTo(rd.w, getReaderPos(rd.w) + offset)
  ELSE [w |-> w, pos |-> w.b.currentPos, err |-> ErrSeekerInvalidWhence]

Seek(w, offset, whence) ==
  IF w.b.isClosed
  THEN [w |-> w, pos |-> w.b.currentPos, err |-> ErrClosed]
  ELSE IF w.b.isSeekerDisabled
  THEN [w |-> w, pos |-> w.b.currentPos, err |-> ErrSeekerDisabled]
  ELSE seekLocked(w, offset, whence)

\* Read with n = realN for n += realN after the read-ahead
Read_CountOnlyLast(w, plen) ==
  IF w.b.isClosed
  THEN [w |-> w, n |-> 0, bytes |-> <<>>, err |-> ErrClosed]
  ELSE LET a == IF w.b.currentPos < getReaderPos(w)
                THEN readTo(w, plen)
                ELSE [w |-> w, n |-> 0, bytes |-> <<>>, err |-> NoErr]
       IN IF a.err # NoErr
          THEN a
          ELSE IF a.n = plen
          THEN a
          ELSE IF a.w.b.isSeekerDisabled
          THEN LET r == readerRead(a.w.reader, plen - a.n)
               IN [w |-> cleanUpBuffer([a.w EXCEPT !.reader = r.reader], TRUE),
                   n |-> a.n + r.n, bytes |-> a.bytes \o r.bytes, err |-> r.err]
          ELSE LET rd == read(a.w, plen - a.n)
                   c == IF rd.n > 0
                        THEN readTo(rd.w, plen - a.n)
                        ELSE [w |-> rd.w, n |-> a.n, bytes |-> <<>>, err |-> rd.err]
               IN [w |-> c.w, n |-> c.n, bytes |-> a.bytes \o c.bytes,
                   err |-> c.err]

\* Read from the return of b.read(len(p[n:])) on: got bytes, `bytes`, are
\* in p already, rd is what b.read returned
readTail(plen, got, bytes, rd) ==
  IF rd.err = ErrBlocked
  THEN [w |-> rd.w, n |-> got, bytes |-> bytes, err |-> ErrBlocked,
        k |-> Waiting("read", plen - got, rd.n, 0, 0, plen, got, bytes)]
  ELSE LET c == IF rd.n > 0
                THEN readTo(rd.w, plen - got)
                ELSE [w |-> rd.w, n |-> 0, bytes |-> <<>>, err |-> rd.err]
       IN [w |-> c.w, n |-> got + c.n, bytes |-> bytes \o c.bytes,
           err |-> c.err]

\* Read under b.mu without the deferred cleanUpBuffer(true) of the direct
\* read
readLocked_NoCleanUp(w, plen) ==
  LET a == IF w.b.currentPos < getReaderPos(w)
           THEN readTo(w, plen)
           ELSE [w |-> w, n |-> 0, bytes |-> <<>>, err |-> NoErr]
  IN IF a.err # NoErr
     THEN a
     ELSE IF a.n = plen
     THEN a
     ELSE IF a.w.b.isSeekerDisabled
     THEN LET r == readerRead(a.w.reader, plen - a.n)
          IN [w |-> [a.w EXCEPT !.reader = r.reader],
              n |-> a.n + r.n, bytes |-> a.bytes \o r.bytes, err |-> r.err]
     ELSE readTail(plen, a.n, a.bytes, read(a.w, plen - a.n))

\* the part of Read that runs under b.mu
readLocked(w, plen) ==
  LET a == IF w.b.currentPos < getReaderPos(w)
           THEN readTo(w, plen)
           ELSE [w |-> w, n |-> 0, bytes |-> <<>>, err |-> NoErr]
  IN IF a.err # NoErr
     THEN a
     ELSE IF a.n = plen
     THEN a
     ELSE IF a.w.b.isSeekerDisabled
     THEN LET r == readerRead(a.w.reader, plen - a.n)
          IN [w |-> cleanUpBuffer([a.w EXCEPT !.reader = r.reader], TRUE),
              n |-> a.n + r.n, bytes |-> a.bytes \o r.bytes, err |-> r.err]
     ELSE readTail(plen, a.n, a.bytes, read(a.w, plen - a.n))

\* Read, resumed when the pool.Get it waits in returns
readResume(w, k) ==
  readTail(k.plen, k.got, k.bytes, readLoop(w, k.n, k.bytesRead, NoErr))

Read(w, plen) ==
  IF w.b.isClosed
  THEN [w |-> w, n |-> 0, bytes |-> <<>>, err |-> ErrClosed]
  ELSE readLocked(w, plen)

\* DisableSeeker that releases every chunk, consumed or not
DisableSeeker_ReleasesAll(w) ==
  IF w.b.isClosed
  THEN w
  ELSE IF w.b.isSeekerDisabled
  THEN w
  ELSE cleanUpBuffer([w EXCEPT !.b.isSeekerDisabled = TRUE], TRUE)

\* the guards of DisableSeeker with a store for the compare-and-swap
disableSeekerCAS_Store(w) ==
  IF w.b.isClosed
  THEN [w |-> w, won |-> FALSE]
  ELSE [w |-> [w EXCEPT !.b.isSeekerDisabled = TRUE], won |-> TRUE]

\* the guards of DisableSeeker: the load of isClosed and the
\* compare-and-swap of isSeekerDisabled; won tells that this call set it
disableSeekerCAS(w) ==
  IF w.b.isClosed
  THEN [w |-> w, won |-> FALSE]
  ELSE IF w.b.isSeekerDisabled
  THEN [w |-> w, won |-> FALSE]
  ELSE [w |-> [w EXCEPT !.b.isSeekerDisabled = TRUE], won |-> TRUE]

DisableSeeker(w) ==
  LET c == disableSeekerCAS(w)
  IN IF c.won THEN cleanUpBuffer(c.w, FALSE) ELSE c.w

\* Close up to the deferred clean-up, without cancelCtx()
closeCAS_NoCancel(w) ==
  IF w.b.isClosed
  THEN [w |-> w, won |-> FALSE]
  ELSE [w |-> [w EXCEPT !.b.isClosed = TRUE, !.reader.closed = @ + 1],
        won |-> TRUE]

\* Close up to the deferred clean-up: the compare-and-swap of isClosed,
\* cancelCtx() and reader.Close(); won tells that this call set isClosed
closeCAS(w) ==
  IF w.b.isClosed
  THEN [w |-> w, won |-> FALSE]
  ELSE [w |-> [w EXCEPT !.b.isClosed = TRUE, !.b.ctxCancelled = TRUE,
                        !.reader.closed = @ + 1],
        won |-> TRUE]

\* Close whose clean-up is not deferred: skipped when reader.Close fails
Close_NoCleanUpOnError(w, cerr) ==
  IF w.b.isClosed
  THEN [w |-> w, err |-> ErrClosed]
  ELSE LET w1 == [w EXCEPT !.b.isClosed = TRUE, !.b.ctxCancelled = TRUE,
                           !.reader.closed = @ + 1]
       IN [w |-> IF cerr # NoErr THEN w1 ELSE cleanUpBuffer(w1, TRUE),
           err |-> cerr]

\* cerr is what reader.Close() returns
Close(w, cerr) ==
  LET c == closeCAS(w)
  IN IF c.won
     THEN [w |-> cleanUpBuffer(c.w, TRUE), err |-> cerr]
     ELSE [w |-> c.w, err |-> ErrClosed]

\* ------------------------------------------------------------ state machine
World == [b |-> b, reader |-> [reader EXCEPT !.nreads = 0], pool |-> pool]

\* the sources the reader is built over, for every length up to MaxLen:
\* the testReader of the tests (each call fills p, EOF comes alone), and
\* what else an io.Reader may do: one byte per call, EOF together with the
\* last bytes, one error returned alone or together with bytes
ReaderOf(len, mx, ewd, em, at) ==
  [data |-> [i \in 1..len |-> ByteAt(i - 1)], pos |-> 0, closed |-> 0,
   nreads |-> 0, maxN |-> mx, eofWithData |-> ewd,
   errMode |-> em, errAt |-> at, errArmed |-> em # "none"]

Readers ==
  UNION { {ReaderOf(len, len + 1, FALSE, "none", -1),
           ReaderOf(len, 1, FALSE, "none", -1),
           ReaderOf(len, len + 1, TRUE, "none", -1)}
          \cup {ReaderOf(len, len + 1, FALSE, "bare", at) : at \in 0..len}
          \cup {ReaderOf(len, len + 1, FALSE, "withdata", at) : at \in 1..len}
          : len \in 0..MaxLen }

\* the offsets tried by Seek: every position of the source, one before the
\* start and one past the end
Offsets == (-(Len(reader.data) + 1))..(Len(reader.data) + 1)

NoRet ==
  [op |-> "none", plen |-> 0, offset |-> 0, whence |-> 0, n |-> 0, pos |-> 0,
   err |-> NoErr, bytes |-> <<>>, from |-> 0, pre |-> 0, waited |-> FALSE,
   prev |-> [op |-> "none", err |-> NoErr, pos |-> 0, currentPos |-> 0]]

\* what a Read remembers of the call before it when that was a Seek: its
\* results and the position the engine held when it was called
Prev ==
  IF ret.op = "Seek"
  THEN [op |-> ret.op, err |-> ret.err, pos |-> ret.pos,
        currentPos |-> ret.pre.b.currentPos]
  ELSE NoRet.prev

Init ==
  /\ b = [isSeekerDisabled |-> FALSE, isClosed |-> FALSE, isEofReached |-> FALSE,
          buffer |-> <<>>, currentPos |-> 0, ctxCancelled |-> FALSE]
  /\ reader \in Readers
  /\ pool \in {[bufSize |-> c, got |-> 0, puts |-> <<>>, limit |-> 0] :
                  c \in 1..MaxBufSize}
  /\ ret = [NoRet EXCEPT !.pre = World]
  /\ lpos = 0
  /\ onlyReads = TRUE
  /\ th = <<>>
  /\ mu = 0
  /\ rs = None /\ fm = None

\* the process has not died of a panic and is not stuck in a loop
Alive == ret.err \notin {ErrPanic, ErrHang}

Commit(w) ==
  /\ b' = w.b
  /\ reader' = w.reader
  /\ pool' = w.pool

ReadCall(plen) ==
  /\ Alive
  /\ UNCHANGED <<th, mu, rs, fm>>
  /\ LET r == Read(World, plen)
     IN /\ Commit(r.w)
        /\ ret' = [NoRet EXCEPT !.op = "Read", !.plen = plen, !.n = r.n,
                                !.err = r.err, !.bytes = r.bytes,
                                !.from = lpos, !.pre = World, !.prev = Prev]
        /\ lpos' = lpos + r.n
  /\ UNCHANGED onlyReads

SeekCall(offset, whence) ==
  /\ Alive
  /\ UNCHANGED <<th, mu, rs, fm>>
  /\ LET r == Seek(World, offset, whence)
     IN /\ Commit(r.w)
        /\ ret' = [NoRet EXCEPT !.op = "Seek", !.offset = offset,
                                !.whence = whence, !.pos = r.pos,
                                !.err = r.err, !.from = lpos, !.pre = World]
        /\ lpos' = IF r.err = NoErr THEN r.pos ELSE lpos
  /\ onlyReads' = FALSE

DisableSeekerCall ==
  /\ Alive
  /\ UNCHANGED <<th, mu, rs, fm>>
  /\ Commit(DisableSeeker(World))
  /\ ret' = [NoRet EXCEPT !.op = "DisableSeeker", !.from = lpos, !.pre = World]
  /\ onlyReads' = FALSE
  /\ UNCHANGED lpos

CloseCall(cerr) ==
  /\ Alive
  /\ UNCHANGED <<th, mu, rs, fm>>
  /\ LET r == Close(World, cerr)
     IN /\ Commit(r.w)
        /\ ret' = [NoRet EXCEPT !.op = "Close", !.err = r.err, !.from = lpos,
                                !.pre = World]
  /\ onlyReads' = FALSE
  /\ UNCHANGED lpos

Next ==
  \/ \E plen \in 0..MaxP : ReadCall(plen)
  \/ \E offset \in Offsets, whence \in {SeekStart, SeekCurrent, SeekEnd, BadWhence} :
       SeekCall(offset, whence)
  \/ DisableSeekerCall
  \/ \E cerr \in {NoErr, ErrSrcClose} : CloseCall(cerr)

Spec == Init /\ [][Next]_vars

\* --------------------------------------------- concurrent callers, one engine
\* NThreads goroutines call the methods of one bufReader.  A call is two
\* steps: the atomic loads / compare-and-swaps made before b.mu is taken
\* (...Enter), and the part that runs with b.mu held (...Body).  A Body step
\* runs from Lock to Unlock, except when pool.Get has to wait: then the call
\* keeps b.mu and goes on (...Resume) when Get returns.  The arguments of a
\* call are not looked at before b.mu is taken; they are chosen in the Body
\* step.
Threads == 1..NThreads

Idle == [pc |-> "idle", k |-> Waiting("none", 0, 0, 0, 0, 0, 0, <<>>)]

InitConc ==
  /\ b = [isSeekerDisabled |-> FALSE, isClosed |-> FALSE, isEofReached |-> FALSE,
          buffer |-> <<>>, currentPos |-> 0, ctxCancelled |-> FALSE]
  /\ reader \in {ReaderOf(len, len + 1, FALSE, "none", -1) : len \in 0..MaxLenConc}
  /\ pool \in {[bufSize |-> c, got |-> 0, puts |-> <<>>, limit |-> lim] :
                  c \in 1..MaxBufSize, lim \in 0..MaxLimit}
  /\ ret = NoRet
  /\ lpos = 0
  /\ onlyReads = TRUE
  /\ th = [t \in Threads |-> Idle]
  /\ mu = 0
  /\ rs = None /\ fm = None

\* the engines of InitConc whose pool stops lending: Get waits for a Put
\* or for its context once `limit` chunks are out
InitGet ==
  /\ InitConc
  /\ pool.limit >= 1
  /\ Len(reader.data) <= MaxLenGet

\* thread t returns from its call
Return(t, r) ==
  /\ ret' = r
  /\ UNCHANGED <<rs, fm>>
  /\ th' = [th EXCEPT ![t] = Idle]

\* thread t goes on to take b.mu
Proceed(t, pc) ==
  /\ th' = [th EXCEPT ![t] = [Idle EXCEPT !.pc = pc]]
  /\ UNCHANGED <<ret, rs, fm>>

\* thread t waits in pool.Get with b.mu held
Wait(t, pc, r) ==
  /\ Commit(r.w)
  /\ th' = [th EXCEPT ![t] = [pc |-> pc, k |-> r.k]]
  /\ mu' = t
  /\ UNCHANGED <<ret, lpos, rs, fm>>

\* the pool.Get a call waits in can return
GetReturns == poolGet(pool, b.ctxCancelled).err # ErrBlocked

ReadEnter(t, plen) ==
  /\ Alive /\ th[t].pc = "idle"
  /\ IF b.isClosed
     THEN Return(t, [NoRet EXCEPT !.op = "Read", !.plen = plen,
                                  !.err = Read(World, plen).err])
     ELSE Proceed(t, "Read")
  /\ UNCHANGED <<b, reader, pool, lpos, onlyReads, mu>>

ReadDone(t, plen, r, waited) ==
  /\ Commit(r.w)
  /\ Return(t, [NoRet EXCEPT !.op = "Read", !.plen = plen, !.n = r.n,
                             !.err = r.err, !.bytes = r.bytes, !.from = lpos,
                             !.waited = waited])
  /\ lpos' = lpos + r.n
  /\ mu' = 0

\* Read without b.mu: a Read that runs while another caller is inside Read
\* loses its update of currentPos
ReadBody_NoMutex(t, plen) ==
  /\ Alive /\ th[t].pc = "Read" /\ mu = 0
  /\ LET r == readLocked(World, plen)
         raced == \E u \in Threads \ {t} : th[u].pc = "Read"
         r1 == IF raced THEN [r EXCEPT !.w.b.currentPos = b.currentPos] ELSE r
     IN IF r.err = ErrBlocked THEN Wait(t, "ReadGet", r)
        ELSE ReadDone(t, plen, r1, FALSE)
  /\ UNCHANGED onlyReads

ReadBody(t, plen) ==
  /\ Alive /\ th[t].pc = "Read" /\ mu = 0
  /\ LET r == readLocked(World, plen)
     IN IF r.err = ErrBlocked THEN Wait(t, "ReadGet", r)
        ELSE ReadDone(t, plen, r, FALSE)
  /\ UNCHANGED onlyReads

ReadResume(t) ==
  /\ Alive /\ th[t].pc = "ReadGet" /\ mu = t /\ GetReturns
  /\ LET r == readResume(World, th[t].k)
     IN IF r.err = ErrBlocked THEN Wait(t, "ReadGet", r)
        ELSE ReadDone(t, th[t].k.plen, r, TRUE)
  /\ UNCHANGED onlyReads

SeekEnter(t) ==
  /\ Alive /\ th[t].pc = "idle"
  /\ IF b.isClosed \/ b.isSeekerDisabled
     THEN LET r == Seek(World, 0, SeekStart)
          IN Return(t, [NoRet EXCEPT !.op = "Seek", !.pos = r.pos, !.err = r.err])
     ELSE Proceed(t, "Seek")
  /\ onlyReads' = FALSE
  /\ UNCHANGED <<b, reader, pool, lpos, mu>>

SeekDone(t, r, waited) ==
  /\ Commit(r.w)
  /\ Return(t, [NoRet EXCEPT !.op = "Seek", !.pos = r.pos, !.err = r.err,
                             !.waited = waited])
  /\ lpos' = IF r.err = NoErr THEN r.pos ELSE lpos
  /\ mu' = 0

SeekBody(t, offset, whence) ==
  /\ Alive /\ th[t].pc = "Seek" /\ mu = 0
  /\ LET r == seekLocked(World, offset, whence)
     IN IF r.err = ErrBlocked THEN Wait(t, "SeekGet", r)
        ELSE SeekDone(t, r, FALSE)
  /\ UNCHANGED onlyReads

SeekResume(t) ==
  /\ Alive /\ th[t].pc = "SeekGet" /\ mu = t /\ GetReturns
  /\ LET r == seekResume(World, th[t].k)
     IN IF r.err = ErrBlocked THEN Wait(t, "SeekGet", r)
        ELSE SeekDone(t, r, TRUE)
  /\ UNCHANGED onlyReads

DisableSeekerEnter(t) ==
  /\ Alive /\ th[t].pc = "idle"
  /\ LET c == disableSeekerCAS(World)
     IN /\ Commit(c.w)
        /\ IF c.won THEN Proceed(t, "DisableSeeker")
           ELSE Return(t, [NoRet EXCEPT !.op = "DisableSeeker"])
  /\ onlyReads' = FALSE
  /\ UNCHANGED <<lpos, mu>>

DisableSeekerBody(t) ==
  /\ Alive /\ th[t].pc = "DisableSeeker" /\ mu = 0
  /\ Commit(cleanUpBuffer(World, FALSE))
  /\ Return(t, [NoRet EXCEPT !.op = "DisableSeeker"])
  /\ UNCHANGED <<lpos, onlyReads, mu>>

CloseEnter(t) ==
  /\ Alive /\ th[t].pc = "idle"
  /\ LET c == closeCAS(World)
     IN /\ Commit(c.w)
        /\ IF c.won THEN Proceed(t, "Close")
           ELSE Return(t, [NoRet EXCEPT !.op = "Close", !.err = ErrClosed])
  /\ onlyReads' = FALSE
  /\ UNCHANGED <<lpos, mu>>

CloseBody(t, cerr) ==
  /\ Alive /\ th[t].pc = "Close" /\ mu = 0
  /\ Commit(cleanUpBuffer(World, TRUE))
  /\ Return(t, [NoRet EXCEPT !.op = "Close", !.err = cerr])
  /\ UNCHANGED <<lpos, onlyReads, mu>>

\* the steps by which thread t goes on with a call it has begun
Continue(t) ==
  \/ \E plen \in 0..MaxP : ReadBody(t, plen)
  \/ ReadResume(t)
  \/ \E offset \in Offsets, whence \in {SeekStart, SeekCurrent, SeekEnd, BadWhence} :
       SeekBody(t, offset, whence)
  \/ SeekResume(t)
  \/ DisableSeekerBody(t)
  \/ \E cerr \in {NoErr, ErrSrcClose} : CloseBody(t, cerr)

NextConc ==
  \E t \in Threads :
    \/ \E plen \in 0..MaxP : ReadEnter(t, plen)
    \/ SeekEnter(t)
    \/ DisableSeekerEnter(t)
    \/ CloseEnter(t)
    \/ Continue(t)

SpecConc == InitConc /\ [][NextConc]_vars

\* a goroutine that has begun a call goes on with it when it can: the Go
\* scheduler runs every runnable goroutine, and a sync.Mutex that is free,
\* or freed again and again, is handed to a waiting goroutine
SpecConcFair ==
  InitGet /\ [][NextConc]_vars /\ \A t \in Threads : WF_vars(Continue(t))

\* ------------------------------------------ bufReadSeeker, the passthrough
\* the io.ReadSeeker handed to NewReader (strings.Reader, bytes.Reader, or
\* one of them behind a Closer): its bytes, its offset, how often it was
\* closed
ReadSeekerOf(len, off, closer) ==
  [data |-> [i \in 1..len |-> ByteAt(i - 1)], off |-> off, closed |-> 0,
   closer |-> closer]

\* readSeeker.Read(p) with len(p) = k
readSeekerRead(r, k) ==
  IF r.off >= Len(r.data)
  THEN [readSeeker |-> r, n |-> 0, bytes |-> <<>>, err |-> EOF]
  ELSE LET n == Min(k, Len(r.data) - r.off)
       IN [readSeeker |-> [r EXCEPT !.off = @ + n], n |-> n,
           bytes |-> Slice(r.data, r.off, n), err |-> NoErr]

\* readSeeker.Seek(offset, whence): an unknown whence and a negative target
\* are errors, a target past the end is not
readSeekerSeek(r, offset, whence) ==
  LET abs == IF whence = SeekStart THEN offset
             ELSE IF whence = SeekCurrent THEN r.off + offset
             ELSE Len(r.data) + offset
  IN IF whence \notin {SeekStart, SeekCurrent, SeekEnd} \/ abs < 0
     THEN [readSeeker |-> r, pos |-> 0, err |-> ErrSrc]
     ELSE [readSeeker |-> [r EXCEPT !.off = abs], pos |-> abs, err |-> NoErr]

\* &bufReadSeeker{readSeeker: r}
NewBufReadSeeker(r) ==
  [isSeekerDisabled |-> FALSE, isClosed |-> FALSE, currentPos |-> 0,
   readSeeker |-> r]

bufReadSeeker_Read(a, plen) ==
  IF a.isClosed
  THEN [a |-> a, n |-> 0, bytes |-> <<>>, err |-> ErrClosed]
  ELSE LET r == readSeekerRead(a.readSeeker, plen)
       IN [a |-> [a EXCEPT !.readSeeker = r.readSeeker,
                           !.currentPos = @ + r.n],
           n |-> r.n, bytes |-> r.bytes, err |-> r.err]

bufReadSeeker_Seek(a, offset, whence) ==
  IF a.isClosed
  THEN [a |-> a, pos |-> a.currentPos, err |-> ErrClosed]
  ELSE IF a.isSeekerDisabled
  THEN [a |-> a, pos |-> a.currentPos, err |-> ErrSeekerDisabled]
  ELSE LET r == readSeekerSeek(a.readSeeker, offset, whence)
       IN IF r.err # NoErr
          THEN [a |-> [a EXCEPT !.readSeeker = r.readSeeker],
                pos |-> a.currentPos, err |-> r.err]
          ELSE [a |-> [a EXCEPT !.readSeeker = r.readSeeker,
                                !.currentPos = r.pos],
                pos |-> r.pos, err |-> NoErr]

\* Close; cerr is what the source's Close returns if it has one
bufReadSeeker_Close(a, cerr) ==
  IF a.isClosed
  THEN [a |-> a, err |-> ErrClosed]
  ELSE IF a.readSeeker.closer
  THEN [a |-> [a EXCEPT !.isClosed = TRUE, !.readSeeker.closed = @ + 1],
        err |-> cerr]
  ELSE [a |-> [a EXCEPT !.isClosed = TRUE], err |-> NoErr]

bufReadSeeker_DisableSeeker(a) ==
  IF a.isClosed THEN a
  ELSE IF a.isSeekerDisabled THEN a
  ELSE [a EXCEPT !.isSeekerDisabled = TRUE]

\* NewReader over every io.ReadSeeker of up to MaxLen bytes, at any offset
\* its owner had left it at
InitAdapter ==
  /\ rs \in {NewBufReadSeeker(ReadSeekerOf(len, off, closer)) :
               len \in 0..MaxLen, off \in 0..MaxLen, closer \in BOOLEAN}
  /\ rs.readSeeker.off <= Len(rs.readSeeker.data)
  /\ ret = NoRet
  /\ b = None /\ reader = None /\ pool = None /\ fm = None
  /\ lpos = 0 /\ onlyReads = TRUE /\ th = <<>> /\ mu = 0

AdapterOffsets ==
  (-(Len(rs.readSeeker.data) + 1))..(Len(rs.readSeeker.data) + 1)

AdapterRead(plen) ==
  /\ LET r == bufReadSeeker_Read(rs, plen)
     IN /\ rs' = r.a
        /\ ret' = [NoRet EXCEPT !.op = "Read", !.plen = plen, !.n = r.n,
                                !.err = r.err, !.bytes = r.bytes]
  /\ UNCHANGED <<b, reader, pool, fm, lpos, onlyReads, th, mu>>

\* the callers seek no further than one byte past the end of the source
AdapterSeek(offset, whence) ==
  /\ readSeekerSeek(rs.readSeeker, offset, whence).pos
       <= Len(rs.readSeeker.data) + 1
  /\ LET r == bufReadSeeker_Seek(rs, offset, whence)
     IN /\ rs' = r.a
        /\ ret' = [NoRet EXCEPT !.op = "Seek", !.offset = offset,
                                !.whence = whence, !.pos = r.pos,
                                !.err = r.err]
  /\ UNCHANGED <<b, reader, pool, fm, lpos, onlyReads, th, mu>>

AdapterDisableSeeker ==
  /\ rs' = bufReadSeeker_DisableSeeker(rs)
  /\ ret' = [NoRet EXCEPT !.op = "DisableSeeker"]
  /\ UNCHANGED <<b, reader, pool, fm, lpos, onlyReads, th, mu>>

AdapterClose(cerr) ==
  /\ LET r == bufReadSeeker_Close(rs, cerr)
     IN /\ rs' = r.a
        /\ ret' = [NoRet EXCEPT !.op = "Close", !.err = r.err]
  /\ UNCHANGED <<b, reader, pool, fm, lpos, onlyReads, th, mu>>

NextAdapter ==
  \/ \E plen \in 0..MaxP : AdapterRead(plen)
  \/ \E offset \in AdapterOffsets,
        whence \in {SeekStart, SeekCurrent, SeekEnd, BadWhence} :
       AdapterSeek(offset, whence)
  \/ AdapterDisableSeeker
  \/ \E cerr \in {NoErr, ErrSrcClose} : AdapterClose(cerr)

SpecAdapter == InitAdapter /\ [][NextAdapter]_vars

\* ------------------------------- engine and adapter over the same content
\* NewReader(r) twice over the same content of up to MaxLen bytes: over a
\* plain reader, which gives the engine, and over a read-seeker at offset 0,
\* which gives the adapter.  Both sources fill p and return EOF alone, and
\* both have a Close.
InitPair ==
  /\ b = [isSeekerDisabled |-> FALSE, isClosed |-> FALSE, isEofReached |-> FALSE,
          buffer |-> <<>>, currentPos |-> 0, ctxCancelled |-> FALSE]
  /\ \E len \in 0..MaxLen :
       /\ reader = ReaderOf(len, len + 1, FALSE, "none", -1)
       /\ rs = NewBufReadSeeker(ReadSeekerOf(len, 0, TRUE))
  /\ pool \in {[bufSize |-> c, got |-> 0, puts |-> <<>>, limit |-> 0] :
                  c \in 1..MaxBufSize}
  /\ ret = [adapter |-> NoRet] @@ NoRet
  /\ lpos = 0 /\ onlyReads = TRUE
  /\ th = <<>> /\ mu = 0 /\ fm = None

\* the same call on both; ret keeps the engine's results and, in field
\* adapter, the adapter's
PairRead(plen) ==
  /\ Alive
  /\ LET r == Read(World, plen)
         q == bufReadSeeker_Read(rs, plen)
     IN /\ Commit(r.w)
        /\ rs' = q.a
        /\ ret' = [adapter |-> [NoRet EXCEPT !.op = "Read", !.n = q.n,
                                             !.err = q.err, !.bytes = q.bytes]]
                  @@ [NoRet EXCEPT !.op = "Read", !.plen = plen, !.n = r.n,
                                   !.err = r.err, !.bytes = r.bytes]
  /\ UNCHANGED <<lpos, onlyReads, th, mu, fm>>

\* the target of Seek(offset, whence) counted from position cur
SeekTarget(cur, len, offset, whence) ==
  IF whence = SeekStart THEN offset
  ELSE IF whence = SeekCurrent THEN cur + offset
  ELSE len + offset

\* Seek with a target inside the content, for the engine and for the adapter
PairSeek(offset, whence) ==
  /\ Alive
  /\ SeekTarget(b.currentPos, Len(reader.data), offset, whence)
       \in 0..Len(reader.data)
  /\ SeekTarget(rs.readSeeker.off, Len(reader.data), offset, whence)
       \in 0..Len(reader.data)
  /\ LET r == Seek(World, offset, whence)
         q == bufReadSeeker_Seek(rs, offset, whence)
     IN /\ Commit(r.w)
        /\ rs' = q.a
        /\ ret' = [adapter |-> [NoRet EXCEPT !.op = "Seek", !.pos = q.pos,
                                             !.err = q.err]]
                  @@ [NoRet EXCEPT !.op = "Seek", !.offset = offset,
                                   !.whence = whence, !.pos = r.pos,
                                   !.err = r.err]
  /\ UNCHANGED <<lpos, onlyReads, th, mu, fm>>

PairDisableSeeker ==
  /\ Alive
  /\ Commit(DisableSeeker(World))
  /\ rs' = bufReadSeeker_DisableSeeker(rs)
  /\ ret' = [adapter |-> [NoRet EXCEPT !.op = "DisableSeeker"]]
            @@ [NoRet EXCEPT !.op = "DisableSeeker"]
  /\ UNCHANGED <<lpos, onlyReads, th, mu, fm>>

\* cerr is what the Close of either source returns
PairClose(cerr) ==
  /\ Alive
  /\ LET r == Close(World, cerr)
         q == bufReadSeeker_Close(rs, cerr)
     IN /\ Commit(r.w)
        /\ rs' = q.a
        /\ ret' = [adapter |-> [NoRet EXCEPT !.op = "Close", !.err = q.err]]
                  @@ [NoRet EXCEPT !.op = "Close", !.err = r.err]
  /\ UNCHANGED <<lpos, onlyReads, th, mu, fm>>

NextPair ==
  \/ \E plen \in 0..MaxP : PairRead(plen)
  \/ \E offset \in Offsets, whence \in {SeekStart, SeekCurrent, SeekEnd} :
       PairSeek(offset, whence)
  \/ PairDisableSeeker
  \/ \E cerr \in {NoErr, ErrSrcClose} : PairClose(cerr)

SpecPair == InitPair /\ [][NextPair]_vars

\* ------------------------------------------------- funcManager (wrapper)
\* NThreads goroutines call Run, RunAsync and Shutdown on one funcManager
\* and hand it up to MaxFuncs functions.  fm holds the fields of the struct
\* (isShutdown, the shutdown channel as the number of close calls on it,
\* mainCtx, the counter of wg), the goroutine Shutdown starts to wait for wg
\* (waiter), and one record per function registered with wg.Add in `tasks`:
\* fn ("nil" for a nil HandleFunc), whether it has returned, whether the
\* context it got is done, the goroutine that runs it synchronously (owner,
\* 0 for RunAsync), and what the claims need to know of its history: whether
\* it was registered before Shutdown was called (before) and whether it
\* returned after that (late).
NewFuncManager ==
  [isShutdown |-> FALSE, shutdown |-> 0, mainCtxDone |-> FALSE, wg |-> 0,
   waiter |-> "none", tasks |-> <<>>, returned |-> FALSE]

FmIdle == [pc |-> "idle", fn |-> "nil", task |-> 0, ctxDone |-> FALSE]

InitFM ==
  /\ fm = NewFuncManager
  /\ th = [t \in Threads |-> FmIdle]
  /\ ret = NoRet
  /\ b = None /\ reader = None /\ pool = None /\ rs = None
  /\ lpos = 0 /\ onlyReads = TRUE /\ mu = 0

FmUnchanged == UNCHANGED <<b, reader, pool, rs, lpos, onlyReads, mu>>

\* the functions handed over so far, registered or about to be
Handed ==
  Len(fm.tasks) + Cardinality({t \in Threads : th[t].pc \in {"RunAdd", "RunAsyncAdd"}})

\* m.wg.Add(1) for a function fn run by goroutine owner (0: its own)
wgAdd(f, fn, owner) ==
  [f EXCEPT !.wg = @ + 1,
            !.tasks = Append(@, [fn |-> fn, returned |-> FALSE,
                                 ctxDone |-> FALSE, owner |-> owner,
                                 before |-> ~f.isShutdown, late |-> FALSE])]

\* m.wg.Done() of task i, as its function returns: a counter that reaches
\* zero lets the goroutine waiting in wg.Wait go on, and all it does is
\* close(done)
wgDone(f, i) ==
  [f EXCEPT !.wg = @ - 1,
            !.tasks[i].returned = TRUE,
            !.tasks[i].late = f.isShutdown,
            !.waiter = IF f.wg = 1 /\ @ = "waiting" THEN "done" ELSE @]

\* Run: the load of isShutdown
RunEnter(t, fn) ==
  /\ th[t].pc = "idle" /\ Handed < MaxFuncs
  /\ IF fm.isShutdown
     THEN /\ ret' = [NoRet EXCEPT !.op = "Run"]
          /\ UNCHANGED th
     ELSE /\ th' = [th EXCEPT ![t] = [FmIdle EXCEPT !.pc = "RunAdd", !.fn = fn]]
          /\ UNCHANGED ret
  /\ UNCHANGED fm /\ FmUnchanged

\* Run: wg.Add(1) and the call of m.run, which calls fn
RunAdd(t) ==
  /\ th[t].pc = "RunAdd"
  /\ fm' = wgAdd(fm, th[t].fn, t)
  /\ th' = [th EXCEPT ![t] = [FmIdle EXCEPT !.pc = "RunFn",
                                            !.task = Len(fm.tasks) + 1]]
  /\ UNCHANGED ret /\ FmUnchanged

\* RunAsync: the load of isShutdown
RunAsyncEnter(t, fn) ==
  /\ th[t].pc = "idle" /\ Handed < MaxFuncs
  /\ IF fm.isShutdown
     THEN /\ ret' = [NoRet EXCEPT !.op = "RunAsync"]
          /\ UNCHANGED th
     ELSE /\ th' = [th EXCEPT ![t] = [FmIdle EXCEPT !.pc = "RunAsyncAdd",
                                                   !.fn = fn]]
          /\ UNCHANGED ret
  /\ UNCHANGED fm /\ FmUnchanged

\* RunAsync: wg.Add(1), the go statement and the return
RunAsyncAdd(t) ==
  /\ th[t].pc = "RunAsyncAdd"
  /\ fm' = wgAdd(fm, th[t].fn, 0)
  /\ th' = [th EXCEPT ![t] = FmIdle]
  /\ ret' = [NoRet EXCEPT !.op = "RunAsync"]
  /\ FmUnchanged

\* m.run returns (at once for a nil fn, when fn returns otherwise) and the
\* deferred wg.Done runs; a Run that called it returns
TaskReturn(i) ==
  /\ i \in 1..Len(fm.tasks) /\ ~fm.tasks[i].returned
  /\ fm' = wgDone(fm, i)
  /\ IF fm.tasks[i].owner # 0
     THEN /\ th' = [th EXCEPT ![fm.tasks[i].owner] = FmIdle]
          /\ ret' = [NoRet EXCEPT !.op = "Run"]
     ELSE UNCHANGED <<th, ret>>
  /\ FmUnchanged

\* the goroutine of m.run that cancels the context of fn once mainCtx is done
CtxPropagate(i) ==
  /\ i \in 1..Len(fm.tasks)
  /\ fm.tasks[i].fn # "nil" /\ ~fm.tasks[i].returned /\ ~fm.tasks[i].ctxDone
  /\ fm.mainCtxDone
  /\ fm' = [fm EXCEPT !.tasks[i].ctxDone = TRUE]
  /\ UNCHANGED <<th, ret>> /\ FmUnchanged

\* Shutdown with a store in place of the compare-and-swap
ShutdownEnter_Store(t) ==
  /\ th[t].pc = "idle"
  /\ fm' = [fm EXCEPT !.isShutdown = TRUE]
  /\ th' = [th EXCEPT ![t] = [FmIdle EXCEPT !.pc = "ShutdownCancel"]]
  /\ UNCHANGED ret
  /\ FmUnchanged

\* Shutdown: the compare-and-swap of isShutdown
ShutdownEnter(t) ==
  /\ th[t].pc = "idle"
  /\ IF fm.isShutdown
     THEN /\ ret' = [NoRet EXCEPT !.op = "Shutdown", !.err = ErrAlreadyShutdown]
          /\ fm' = [fm EXCEPT !.returned = TRUE]
          /\ UNCHANGED th
     ELSE /\ fm' = [fm EXCEPT !.isShutdown = TRUE]
          /\ th' = [th EXCEPT ![t] = [FmIdle EXCEPT !.pc = "ShutdownCancel"]]
          /\ UNCHANGED ret
  /\ FmUnchanged

\* Shutdown that starts the waiting goroutine without mainCtxCancel()
ShutdownCancel_NoCancel(t) ==
  /\ th[t].pc = "ShutdownCancel"
  /\ fm' = [fm EXCEPT !.waiter = "started"]
  /\ th' = [th EXCEPT ![t].pc = "ShutdownSelect"]
  /\ UNCHANGED ret /\ FmUnchanged

\* Shutdown: mainCtxCancel() and the go statement of the waiting goroutine
ShutdownCancel(t) ==
  /\ th[t].pc = "ShutdownCancel"
  /\ fm' = [fm EXCEPT !.mainCtxDone = TRUE, !.waiter = "started"]
  /\ th' = [th EXCEPT ![t].pc = "ShutdownSelect"]
  /\ UNCHANGED ret /\ FmUnchanged

\* the waiting goroutine that closes done without wg.Wait()
WaiterWait_NoWait ==
  /\ fm.waiter = "started"
  /\ fm' = [fm EXCEPT !.waiter = "done"]
  /\ UNCHANGED <<th, ret>> /\ FmUnchanged

\* the waiting goroutine calls wg.Wait(): with the counter at zero it
\* returns and done is closed, else it waits
WaiterWait ==
  /\ fm.waiter = "started"
  /\ fm' = [fm EXCEPT !.waiter = IF fm.wg = 0 THEN "done" ELSE "waiting"]
  /\ UNCHANGED <<th, ret>> /\ FmUnchanged

\* the ctx handed to Shutdown becomes done
CtxExpire(t) ==
  /\ th[t].pc \in {"ShutdownCancel", "ShutdownSelect"} /\ ~th[t].ctxDone
  /\ th' = [th EXCEPT ![t].ctxDone = TRUE]
  /\ UNCHANGED <<fm, ret>> /\ FmUnchanged

\* Shutdown: the select takes a case that is ready (either one when both
\* are), the deferred close(m.shutdown) runs and Shutdown returns
ShutdownSelect(t) ==
  /\ th[t].pc = "ShutdownSelect"
  /\ \E err \in {NoErr, ErrCanceled} :
       /\ err = NoErr => fm.waiter = "done"
       /\ err = ErrCanceled => th[t].ctxDone
       /\ ret' = [NoRet EXCEPT !.op = "Shutdown", !.err = err]
  /\ fm' = [fm EXCEPT !.shutdown = @ + 1, !.returned = TRUE]
  /\ th' = [th EXCEPT ![t] = FmIdle]
  /\ FmUnchanged

NextFM ==
  \/ \E t \in Threads, fn \in {"nil", "fn"} : RunEnter(t, fn)
  \/ \E t \in Threads : RunAdd(t)
  \/ \E t \in Threads, fn \in {"nil", "fn"} : RunAsyncEnter(t, fn)
  \/ \E t \in Threads : RunAsyncAdd(t)
  \/ \E i \in 1..MaxFuncs : TaskReturn(i)
  \/ \E i \in 1..MaxFuncs : CtxPropagate(i)
  \/ \E t \in Threads : ShutdownEnter(t)
  \/ \E t \in Threads : ShutdownCancel(t)
  \/ WaiterWait
  \/ \E t \in Threads : CtxExpire(t)
  \/ \E t \in Threads : ShutdownSelect(t)

SpecFM == InitFM /\ [][NextFM]_vars

\* a function that returns once its context is done; m.run with a nil fn
\* returns at once
TaskReturnsWhenDone(i) ==
  /\ i \in 1..Len(fm.tasks)
  /\ fm.tasks[i].ctxDone \/ fm.tasks[i].fn = "nil"
  /\ TaskReturn(i)

\* the Go scheduler runs every runnable goroutine: a call that has begun
\* goes on, the goroutines started by m.run and by Shutdown run, a select
\* with a ready case returns; the functions handed over are the ones that
\* return once their context is done.  Nothing makes a caller's ctx expire.
SpecFMFair ==
  /\ SpecFM
  /\ \A t \in Threads :
       /\ WF_vars(RunAdd(t)) /\ WF_vars(RunAsyncAdd(t))
       /\ WF_vars(ShutdownCancel(t)) /\ WF_vars(ShutdownSelect(t))
  /\ WF_vars(WaiterWait)
  /\ \A i \in 1..MaxFuncs :
       WF_vars(CtxPropagate(i)) /\ WF_vars(TaskReturnsWhenDone(i))

\* ------------------------------------------------------------------ claims
L == Len(reader.data)

\* the source never returns an error other than EOF
ErrorFree == reader.errMode = "none"

\* the source returned no error during the last call and returns none later
NoSrcErr == ~ret.pre.reader.errArmed

\* the last call was made on an open engine (not closed, seeker enabled)
WasOpen == ~ret.pre.b.isClosed /\ ~ret.pre.b.isSeekerDisabled

\* the last call was made on an engine in state SeekDisabled
WasSeekDisabled == ~ret.pre.b.isClosed /\ ret.pre.b.isSeekerDisabled

\* the chunks the engine holds
Held(w) == {i \in 1..Len(w.b.buffer) : ~IsNil(w.b.buffer[i])}

\* the last call was Read(p) with len(p) > 0 and it delivered the bytes of
\* the source from offset `from` on: at least one if there is one, and
\* (0, EOF) at the end of the source
DeliversFrom(from) ==
  /\ ret.n = Len(ret.bytes)
  /\ 0 <= from /\ from + ret.n <= L
  /\ ret.bytes = Slice(reader.data, from, ret.n)
  /\ from < L => ret.n >= 1
  /\ from = L => ret.n = 0 /\ ret.err = EOF
  /\ ret.err \in {NoErr, EOF}

\* C1: with Read calls only, over an error-free source, every Read with a
\* non-empty buffer delivers the bytes that follow the ones delivered so far
\* (ret.from is the sum of the counts returned before), at least one byte
\* while fewer than L were delivered, and (0, EOF) once L were delivered.
C1_ReadsDeliverSource ==
  (onlyReads /\ ErrorFree /\ ret.op = "Read" /\ ret.plen > 0)
     => DeliversFrom(ret.from)

\* a run of Reads alone has delivered the whole source, crossing chunks, and
\* the last Read returned (0, EOF)
C1_Witness ==
  /\ onlyReads /\ ErrorFree /\ ret.op = "Read" /\ ret.plen > 0
  /\ L = MaxLen /\ ret.from = L /\ ret.err = EOF /\ ret.n = 0
  /\ pool.got >= 2

\* C2: on an open engine, the Read (non-empty buffer) that follows a Seek
\* that succeeded and returned abs delivers the source bytes from offset abs
\* on, and (0, EOF) when abs = L.
C2_ReadAfterSeek ==
  (ret.op = "Read" /\ ret.plen > 0 /\ WasOpen /\ NoSrcErr
   /\ ret.prev.op = "Seek" /\ ret.prev.err = NoErr)
     => DeliversFrom(ret.prev.pos)

\* a Read after a backward Seek delivered bytes that had been read before
C2_Witness ==
  /\ ret.op = "Read" /\ ret.plen > 0 /\ WasOpen /\ NoSrcErr
  /\ ret.prev.op = "Seek" /\ ret.prev.err = NoErr
  /\ ret.prev.pos < ret.prev.currentPos
  /\ ret.n >= 2

\* C3: on an open engine over an error-free source, for 0 <= x - y <= x <= L,
\* Seek(x, Start) then Seek(-y, Current) succeeds, returns the position that
\* Seek(x - y, Start) returns from the same state, and leaves the same
\* currentPos.
C3_SeekComposition ==
  (~b.isClosed /\ ~b.isSeekerDisabled /\ ~reader.errArmed /\ Alive) =>
    \A x \in 0..L : \A y \in 0..x :
      LET s1 == Seek(World, x, SeekStart)
          s2 == Seek(s1.w, -y, SeekCurrent)
          s3 == Seek(World, x - y, SeekStart)
      IN /\ s1.err = NoErr /\ s2.err = NoErr /\ s3.err = NoErr
         /\ s2.pos = s3.pos
         /\ s2.w.b.currentPos = s3.w.b.currentPos

\* a Seek(-y, Current), y > 0, succeeded from the end of the source on an
\* engine that is still open
C3_Witness ==
  /\ ret.op = "Seek" /\ ret.whence = SeekCurrent /\ ret.offset < 0
  /\ ret.err = NoErr /\ WasOpen /\ ~reader.errArmed
  /\ ret.pre.b.currentPos = L /\ L = MaxLen
  /\ ret.pos = L + ret.offset

\* the target of the last Seek call, for whence Start or Current
Abs == IF ret.whence = SeekStart THEN ret.offset
       ELSE ret.pre.b.currentPos + ret.offset

\* C4: on an open engine over an error-free source, Seek with whence Start
\* or Current succeeds and returns abs when 0 <= abs <= L and fails with
\* ErrSeekerOutOfRange otherwise; the Read after such a failure delivers the
\* bytes from the position held before the Seek.
C4_SeekRange ==
  /\ (ret.op = "Seek" /\ ret.whence \in {SeekStart, SeekCurrent} /\ WasOpen
      /\ NoSrcErr)
       => IF 0 <= Abs /\ Abs <= L
          THEN ret.err = NoErr /\ ret.pos = Abs /\ b.currentPos = Abs
          ELSE ret.err = ErrSeekerOutOfRange
  /\ (ret.op = "Read" /\ ret.plen > 0 /\ WasOpen /\ NoSrcErr
      /\ ret.prev.op = "Seek" /\ ret.prev.err = ErrSeekerOutOfRange)
       => DeliversFrom(ret.prev.currentPos)

\* a Read delivered bytes after a Seek past the end had failed at a position
\* other than 0
C4_Witness ==
  /\ ret.op = "Read" /\ ret.plen > 0 /\ WasOpen /\ NoSrcErr
  /\ ret.prev.op = "Seek" /\ ret.prev.err = ErrSeekerOutOfRange
  /\ ret.prev.currentPos > 0 /\ ret.n >= 1

\* C5: a Seek call that returns an error returns the value currentPos had
\* before the call and leaves currentPos unchanged.
C5_SeekErrorKeepsPos ==
  (ret.op = "Seek" /\ ret.err # NoErr)
     => ret.pos = ret.pre.b.currentPos /\ b.currentPos = ret.pre.b.currentPos

\* a Seek failed with an error of the source after reading ahead, at a
\* position other than 0
C5_Witness ==
  /\ ret.op = "Seek" /\ ret.err = ErrSrc /\ ret.pre.b.currentPos > 0
  /\ reader.pos > ret.pre.reader.pos

\* C6: on an open engine over an error-free source, Seek(offset, End) with
\* offset <= 0 fetches the source to its end and sets and returns
\* currentPos = L + offset, or fails with ErrSeekerOutOfRange when that is
\* negative; with offset > 0 it fails with ErrSeekerOutOfRange without
\* reading the source or acquiring a chunk.
C6_SeekEnd ==
  (ret.op = "Seek" /\ ret.whence = SeekEnd /\ WasOpen /\ NoSrcErr) =>
    IF ret.offset <= 0
    THEN /\ reader.pos = L /\ getReaderPos(World) = L /\ b.isEofReached
         /\ IF L + ret.offset >= 0
            THEN ret.err = NoErr /\ ret.pos = L + ret.offset
                 /\ b.currentPos = L + ret.offset
            ELSE ret.err = ErrSeekerOutOfRange
    ELSE /\ ret.err = ErrSeekerOutOfRange
         /\ reader.nreads = 0 /\ reader.pos = ret.pre.reader.pos
         /\ pool = ret.pre.pool

\* a Seek(offset, End), offset < 0, succeeded and had to fetch the source
C6_Witness ==
  /\ ret.op = "Seek" /\ ret.whence = SeekEnd /\ WasOpen /\ NoSrcErr
  /\ ret.offset < 0 /\ ret.err = NoErr /\ ret.pos = L + ret.offset
  /\ reader.pos > ret.pre.reader.pos /\ pool.got > ret.pre.pool.got

\* C7: a Seek on an engine in state SeekDisabled fails with
\* ErrSeekerDisabled, leaves currentPos unchanged and neither acquires nor
\* releases a chunk.
C7_SeekAfterDisable ==
  (ret.op = "Seek" /\ WasSeekDisabled) =>
    /\ ret.err = ErrSeekerDisabled
    /\ ret.pos = ret.pre.b.currentPos
    /\ b = ret.pre.b
    /\ pool = ret.pre.pool
    /\ reader.nreads = 0

\* a Seek to a position inside the buffered data failed after DisableSeeker
C7_Witness ==
  /\ ret.op = "Seek" /\ WasSeekDisabled /\ ret.err = ErrSeekerDisabled
  /\ ret.whence = SeekStart /\ ret.offset >= 0
  /\ ret.offset < getReaderPos(ret.pre)
  /\ Held(World) # {}

\* C8: the first DisableSeeker is called at the position the caller has
\* consumed up to, and every Read on the engine in state SeekDisabled, over
\* an error-free source, delivers the source bytes that follow the ones
\* delivered so far, whether they come from the buffered tail, from the
\* source, or from both, and (0, EOF) (or the last bytes with EOF) at the end.
C8_ReadAfterDisable ==
  /\ (ret.op = "DisableSeeker" /\ WasOpen) => lpos = ret.pre.b.currentPos
  /\ (ret.op = "Read" /\ ret.plen > 0 /\ WasSeekDisabled /\ NoSrcErr)
       => DeliversFrom(ret.from)

\* a Read in state SeekDisabled delivered the buffered tail and bytes read
\* directly from the source in one call
C8_Witness ==
  /\ ret.op = "Read" /\ WasSeekDisabled /\ NoSrcErr
  /\ ret.pre.b.currentPos < getReaderPos(ret.pre)
  /\ ret.n > getReaderPos(ret.pre) - ret.pre.b.currentPos
  /\ reader.pos > ret.pre.reader.pos

\* C9: when the first Close returns, the engine holds no chunk and the pool
\* has got back every chunk it handed out, whatever reader.Close returned.
C9_CloseReleasesAll ==
  (ret.op = "Close" /\ ~ret.pre.b.isClosed) =>
    /\ Held(World) = {}
    /\ Len(pool.puts) = pool.got

\* a Close whose reader.Close failed released the chunks left by an earlier
\* DisableSeeker
C9_Witness ==
  /\ ret.op = "Close" /\ ~ret.pre.b.isClosed /\ ret.err = ErrSrcClose
  /\ ret.pre.b.isSeekerDisabled
  /\ Len(ret.pre.pool.puts) >= 1
  /\ Held(ret.pre) # {}

\* C10: a call on a closed engine changes nothing and reports Closed: Read
\* returns (0, ErrClosed), Seek returns (currentPos, ErrClosed) also when
\* the seeker is disabled, Close returns ErrClosed, DisableSeeker returns.
C10_ClosedIsTerminal ==
  ret.pre.b.isClosed =>
    /\ b = ret.pre.b /\ reader = ret.pre.reader /\ pool = ret.pre.pool
    /\ ret.op = "Read" => ret.n = 0 /\ ret.err = ErrClosed
    /\ ret.op = "Seek" => ret.pos = b.currentPos /\ ret.err = ErrClosed
    /\ ret.op = "Close" => ret.err = ErrClosed

\* a Seek on an engine closed after DisableSeeker, at a position other than 0
C10_Witness ==
  /\ ret.pre.b.isClosed /\ ret.pre.b.isSeekerDisabled
  /\ ret.op = "Seek" /\ ret.err = ErrClosed /\ ret.pos > 0

\* C12 as claimed: in every reachable state 0 <= currentPos <= readerPos,
\* readerPos computed from the chunk list, and readerPos <= L.
C12_PosWithinReaderPos ==
  /\ 0 <= b.currentPos
  /\ b.currentPos <= getReaderPos(World)
  /\ getReaderPos(World) <= L

\* C12 as amended: 0 <= currentPos <= readerPos holds while the engine is
\* open or still has a chunk list; readerPos <= L holds in every state; once
\* DisableSeeker, a pass-through Read or Close has dropped the chunk list,
\* readerPos is 0 and currentPos keeps its value.
C12_PosWithinReaderPosWhileBuffered ==
  /\ 0 <= b.currentPos
  /\ getReaderPos(World) <= L
  /\ ((~b.isClosed /\ ~b.isSeekerDisabled) \/ b.buffer # <<>>)
       => b.currentPos <= getReaderPos(World)
  /\ b.buffer = <<>> => getReaderPos(World) = 0

\* an open engine has been moved by Seek to the end of a source that it
\* had to fetch for it
C12_Witness ==
  /\ ~b.isClosed /\ ~b.isSeekerDisabled
  /\ ret.op = "Seek" /\ ret.err = NoErr
  /\ b.currentPos = L /\ getReaderPos(World) = L /\ L = MaxLen
  /\ reader.pos > ret.pre.reader.pos

\* C13: over an error-free source, a Read that copies at least one byte
\* returns a nil error, and a Read returns EOF only with n = 0 and after the
\* source has signalled the end of the stream.
C13_EofOnlyWithZeroBytes ==
  (ErrorFree /\ ret.op = "Read" /\ ~ret.pre.b.isClosed) =>
    /\ ret.n >= 1 => ret.err = NoErr
    /\ ret.err = EOF => ret.n = 0 /\ reader.pos = L

\* the source returned an error other than EOF during the last call
SrcErred == ret.pre.reader.errArmed /\ ~reader.errArmed

\* C14: a Read or Seek call during which the source returns an error other
\* than EOF returns that error, and such a Seek leaves currentPos unchanged,
\* also when the source delivered bytes before or together with the error.
C14_SourceErrorPropagates ==
  (SrcErred /\ ret.op \in {"Read", "Seek"}) =>
    /\ ret.err = ErrSrc
    /\ ret.op = "Seek" => b.currentPos = ret.pre.b.currentPos

\* the lifecycle state of the engine, from its two guards
LifeState(e) ==
  IF e.isClosed THEN "Closed"
  ELSE IF e.isSeekerDisabled THEN "SeekDisabled"
  ELSE "Open"

\* C11: in every step of every interleaving the lifecycle state stays or
\* moves Open -> SeekDisabled, Open -> Closed or SeekDisabled -> Closed, no
\* guard once set is cleared, and a DisableSeeker call on an engine whose
\* seeker is disabled already returns at once and releases no chunk.
C11_Lifecycle ==
  [][ /\ <<LifeState(b), LifeState(b')>> \in
           { <<"Open", "Open">>, <<"SeekDisabled", "SeekDisabled">>,
             <<"Closed", "Closed">>, <<"Open", "SeekDisabled">>,
             <<"Open", "Closed">>, <<"SeekDisabled", "Closed">> }
      /\ b.isClosed => b'.isClosed
      /\ b.isSeekerDisabled => b'.isSeekerDisabled
      /\ \A t \in Threads :
           (DisableSeekerEnter(t) /\ b.isSeekerDisabled)
             => pool' = pool /\ b' = b /\ th'[t].pc = "idle"
    ]_vars

\* a DisableSeeker call has returned on a seek-disabled engine that holds a
\* chunk lying wholly before currentPos: it was a repeated call
C11_Witness ==
  /\ ret.op = "DisableSeeker" /\ b.isSeekerDisabled /\ ~b.isClosed
  /\ \E i \in Held(World) : i - 1 < b.currentPos \div pool.bufSize

\* C15: in every state of every interleaving no chunk has been put back
\* twice (chunk ids are unique per Get), every chunk put back had been got,
\* and no chunk that was put back is in the chunk list.
C15_ReleasedAtMostOnce ==
  /\ \A i, j \in 1..Len(pool.puts) : i # j => pool.puts[i] # pool.puts[j]
  /\ \A i \in 1..Len(pool.puts) : pool.puts[i] \in 1..pool.got
  /\ \A i \in Held(World) : \A j \in 1..Len(pool.puts) :
       b.buffer[i].id # pool.puts[j]

\* chunks have been released by DisableSeeker, others are still held, and a
\* Close that won is waiting for b.mu to release them
C15_Witness ==
  /\ Len(pool.puts) >= 1 /\ Held(World) # {}
  /\ b.isSeekerDisabled
  /\ \E t \in Threads : th[t].pc = "Close"

\* thread t waits in pool.Get
InGet(t) == th[t].pc \in {"ReadGet", "SeekGet"}

\* C16: with a pool whose Get waits: no Read or Seek stays in Get for ever
\* once Close has been called, and no Close stays blocked for ever (no
\* deadlock); a call leaves Get after Close only by returning ErrClosed;
\* when Close returns the engine holds no chunk.
C16_CloseWakesGet ==
  /\ \A t \in Threads : []<>(~(InGet(t) /\ b.isClosed))
  /\ \A t \in Threads : []<>(th[t].pc # "Close")
  /\ [][ /\ \A t \in Threads :
              (InGet(t) /\ b.isClosed /\ th'[t] # th[t])
                => /\ th'[t].pc = "idle"
                   /\ ret'.err = ErrClosed /\ ret'.waited
         /\ \A t \in Threads :
              (th[t].pc = "Close" /\ th'[t].pc = "idle")
                => Held([b |-> b', reader |-> reader', pool |-> pool']) = {}
       ]_vars

\* a call that waited in pool.Get has returned ErrClosed
C16_Witness ==
  /\ ret.waited /\ ret.err = ErrClosed /\ ret.op \in {"Read", "Seek"}
  /\ b.isClosed /\ pool.limit > 0

\* C17: while only Read is called, by any number of callers at once, every
\* Read with a non-empty buffer delivers the source bytes that follow the
\* ones delivered to the Reads that held b.mu before it: the ranges are
\* contiguous, disjoint and cover the source from offset 0.
C17_ConcurrentReadsSerialize ==
  (onlyReads /\ ret.op = "Read" /\ ret.plen > 0) => DeliversFrom(ret.from)

\* a Read has delivered bytes from an offset other than 0 while another
\* caller is inside Read, waiting for b.mu
C17_Witness ==
  /\ onlyReads /\ ret.op = "Read" /\ ret.plen > 0
  /\ ret.from > 0 /\ ret.n >= 1
  /\ \E t \in Threads : th[t].pc = "Read"

\* C18: for the passthrough adapter, in every step: a Seek on a seek-disabled
\* open adapter returns SeekerDisabled and the tracked position and leaves
\* the source alone; the first Close closes the source (once) and returns
\* what that gave, a later Close returns Closed and leaves the source alone;
\* on a closed adapter Read returns (0, Closed) and Seek returns Closed; and
\* after a Read or Seek that returned no error the tracked position is the
\* offset of the source.
C18_Adapter ==
  [][ /\ (ret'.op = "Seek" /\ rs.isSeekerDisabled /\ ~rs.isClosed)
           => /\ ret'.err = ErrSeekerDisabled
              /\ ret'.pos = rs.currentPos
              /\ rs'.readSeeker = rs.readSeeker
      /\ (ret'.op = "Close" /\ ~rs.isClosed)
           => /\ rs'.isClosed
              /\ ret'.err \in {NoErr, ErrSrcClose}
              /\ ~rs.readSeeker.closer => ret'.err = NoErr
              /\ rs.readSeeker.closer
                   => rs'.readSeeker.closed = rs.readSeeker.closed + 1
      /\ (ret'.op = "Close" /\ rs.isClosed)
           => ret'.err = ErrClosed /\ rs' = rs
      /\ (ret'.op = "Read" /\ rs.isClosed)
           => ret'.n = 0 /\ ret'.err = ErrClosed /\ rs' = rs
      /\ (ret'.op = "Seek" /\ rs.isClosed)
           => ret'.err = ErrClosed /\ rs' = rs
      /\ (ret'.op \in {"Read", "Seek"} /\ ret'.err = NoErr)
           => rs'.currentPos = rs'.readSeeker.off
    ]_vars

\* C19: in every step: isShutdown once set stays set; a Shutdown call that
\* finds it set returns ErrAlreadyShutdown and changes nothing, one that
\* finds it clear sets it and goes on; a Run or RunAsync call that starts
\* after a Shutdown call has returned returns at once, registers nothing
\* and calls no function.
C19_ShutdownOnce ==
  [][ /\ fm.isShutdown => fm'.isShutdown
      /\ \A t \in Threads :
           (ShutdownEnter(t) /\ fm.isShutdown)
             => /\ ret'.op = "Shutdown" /\ ret'.err = ErrAlreadyShutdown
                /\ th'[t].pc = "idle"
                /\ [fm' EXCEPT !.returned = FALSE] = [fm EXCEPT !.returned = FALSE]
      /\ \A t \in Threads :
           (ShutdownEnter(t) /\ ~fm.isShutdown)
             => fm'.isShutdown /\ th'[t].pc = "ShutdownCancel"
      /\ \A t \in Threads, fn \in {"nil", "fn"} :
           (fm.returned /\ (RunEnter(t, fn) \/ RunAsyncEnter(t, fn)))
             => /\ th'[t].pc = "idle" /\ ret'.op \in {"Run", "RunAsync"}
                /\ fm' = fm
    ]_vars

\* a second Shutdown call has returned ErrAlreadyShutdown, and the first is
\* still waiting for a function
C19_Witness ==
  /\ ret.op = "Shutdown" /\ ret.err = ErrAlreadyShutdown
  /\ \E t \in Threads : th[t].pc = "ShutdownSelect"
  /\ fm.wg > 0

\* C20: in every step in which the Shutdown call that set isShutdown
\* returns: if it returns nil, every function registered before it was
\* called has returned; it returns the error of its ctx only if that ctx
\* is done, and does so whenever done is not closed yet; and the channel of
\* Wait is closed in that step, once, and in no other step.
C20_ShutdownWaits ==
  [][ /\ \A t \in Threads :
           ShutdownSelect(t)
             => /\ ret'.err = NoErr
                     => \A i \in 1..Len(fm.tasks) :
                          fm.tasks[i].before => fm.tasks[i].returned
                /\ ret'.err # NoErr
                     => ret'.err = ErrCanceled /\ th[t].ctxDone
                /\ fm.waiter # "done" => ret'.err = ErrCanceled
                /\ fm.shutdown = 0 /\ fm'.shutdown = 1
      /\ fm'.shutdown # fm.shutdown => \E t \in Threads : ShutdownSelect(t)
      /\ fm'.shutdown > 0 => fm.isShutdown
    ]_vars

\* Shutdown has returned nil and closed the channel after it had waited
\* for a function that was running when it was called
C20_Witness ==
  /\ ret.op = "Shutdown" /\ ret.err = NoErr /\ fm.shutdown = 1
  /\ \E i \in 1..Len(fm.tasks) :
       fm.tasks[i].fn = "fn" /\ fm.tasks[i].before /\ fm.tasks[i].late

\* Shutdown has returned the error of its ctx while a function registered
\* before it was called is still running
C20_WitnessCtx ==
  /\ ret.op = "Shutdown" /\ ret.err = ErrCanceled /\ fm.shutdown = 1
  /\ \E i \in 1..Len(fm.tasks) : fm.tasks[i].before /\ ~fm.tasks[i].returned

\* C21: once Shutdown has been called no function stays running for ever
\* with a context that is not done; and with functions that return once
\* their context is done, no Shutdown call stays unreturned for ever with
\* its own ctx not done, and one that returns while its ctx is not done
\* returns nil.
C21_ShutdownCancelsAndReturns ==
  /\ \A i \in 1..MaxFuncs :
       []<>(~(/\ i <= Len(fm.tasks) /\ fm.isShutdown
              /\ fm.tasks[i].fn = "fn" /\ ~fm.tasks[i].returned
              /\ ~fm.tasks[i].ctxDone))
  /\ \A t \in Threads :
       []<>(~(/\ th[t].pc \in {"ShutdownCancel", "ShutdownSelect"}
              /\ ~th[t].ctxDone))
  /\ [][ \A t \in Threads :
           (ShutdownSelect(t) /\ ~th[t].ctxDone) => ret'.err = NoErr ]_vars

\* a Shutdown whose ctx did not expire has returned nil after a function
\* that was running when it was called got its context cancelled and
\* returned
C21_Witness ==
  /\ ret.op = "Shutdown" /\ ret.err = NoErr
  /\ \E i \in 1..Len(fm.tasks) :
       /\ fm.tasks[i].fn = "fn" /\ fm.tasks[i].before
       /\ fm.tasks[i].late /\ fm.tasks[i].ctxDone

\* every chunk of the list but the last is released or filled to capacity
EarlierChunksFull ==
  \A i \in 1..(Len(b.buffer) - 1) :
    IsNil(b.buffer[i]) \/ Len(b.buffer[i].buffer) = pool.bufSize

\* the last chunk of the list is held and shorter than C
LastChunkPartial ==
  /\ Len(b.buffer) > 0
  /\ ~IsNil(b.buffer[Len(b.buffer)])
  /\ Len(b.buffer[Len(b.buffer)].buffer) < pool.bufSize

\* C22: in every reachable state, for every source, every chunk but the
\* last is full, and the last chunk is shorter than C only if the source
\* has signalled end-of-stream.
C22_OnlyLastPartialAtEof ==
  /\ EarlierChunksFull
  /\ LastChunkPartial => b.isEofReached

\* C22, amended: in every reachable state, for every source, every chunk
\* but the last is full, no chunk is longer than C, and the bytes in the
\* list are the bytes fetched from the source so far (the last chunk may be
\* short at any time).
C22_EarlierChunksFull ==
  /\ EarlierChunksFull
  /\ \A i \in Held(World) : Len(b.buffer[i].buffer) <= pool.bufSize
  /\ (Len(b.buffer) > 0 /\ ~IsNil(b.buffer[Len(b.buffer)]))
       => /\ getReaderPos(World) = reader.pos
          /\ \A i \in Held(World) :
               b.buffer[i].buffer
                 = Slice(reader.data, (i - 1) * pool.bufSize, Len(b.buffer[i].buffer))

\* the list holds a full chunk and a short last chunk that a later
\* read-ahead went on filling, while the source has not signalled its end
C22_Witness ==
  /\ Len(b.buffer) >= 2 /\ LastChunkPartial /\ ~b.isEofReached
  /\ Len(b.buffer[Len(b.buffer)].buffer) >= 1
  /\ reader.maxN = 1

\* in world w, the whole byte range of the held chunk i lies before pos
RangeBefore(w, i, pos) ==
  (i - 1) * w.pool.bufSize + Len(w.b.buffer[i].buffer) <= pos

\* C23: the first DisableSeeker on an open engine releases every (non-empty)
\* chunk whose whole byte range lies before currentPos, a consumed short
\* final chunk included, keeps every other chunk as it is, and leaves
\* currentPos unchanged.
C23_DisableSeekerReleasesConsumed ==
  (ret.op = "DisableSeeker" /\ WasOpen) =>
    /\ \A i \in Held(ret.pre) :
         (Len(ret.pre.b.buffer[i].buffer) > 0
            /\ RangeBefore(ret.pre, i, ret.pre.b.currentPos))
           => /\ i \notin Held(World)
              /\ \E j \in 1..Len(pool.puts) : pool.puts[j] = ret.pre.b.buffer[i].id
    /\ \A i \in Held(ret.pre) :
         ~RangeBefore(ret.pre, i, ret.pre.b.currentPos)
           => i \in Held(World) /\ b.buffer[i] = ret.pre.b.buffer[i]
    /\ b.currentPos = ret.pre.b.currentPos

\* the last call was a Seek on an open engine that read from the source
\* and then failed with ErrSeekerOutOfRange
SeekFailedAfterReadAhead ==
  /\ ret.op = "Seek" /\ WasOpen /\ ret.err = ErrSeekerOutOfRange
  /\ reader.pos > ret.pre.reader.pos

\* C24: after a Seek that failed with ErrSeekerOutOfRange after reading
\* ahead, readerPos counts every byte fetched from the source, the engine
\* holds the chunks it held before and the new ones, nothing was released,
\* currentPos is unchanged, and a Seek to any position up to readerPos and a
\* Read that ends at or before readerPos succeed without a call of the
\* source.
C24_FailedSeekKeepsReadAhead ==
  SeekFailedAfterReadAhead =>
    /\ getReaderPos(World) = reader.pos
    /\ pool.puts = ret.pre.pool.puts
    /\ Held(ret.pre) \subseteq Held(World)
    /\ Cardinality(Held(World)) - Cardinality(Held(ret.pre))
         = pool.got - ret.pre.pool.got
    /\ b.currentPos = ret.pre.b.currentPos
    /\ \A x \in 0..getReaderPos(World) :
         LET s == Seek(World, x, SeekStart)
         IN /\ s.err = NoErr /\ s.pos = x
            /\ s.w.reader = World.reader /\ s.w.pool = World.pool
            /\ \A plen \in 1..MaxP :
                 x + plen <= getReaderPos(World)
                   => LET r == Read(s.w, plen)
                      IN /\ r.n = plen /\ r.err = NoErr
                         /\ r.bytes = Slice(reader.data, x, plen)
                         /\ r.w.reader = World.reader /\ r.w.pool = World.pool

\* a Seek past the end of the source failed after it had fetched more than
\* one chunk, with bytes buffered before the call
C24_Witness ==
  /\ SeekFailedAfterReadAhead
  /\ pool.got >= ret.pre.pool.got + 2
  /\ Held(ret.pre) # {}

\* the chunks the pool has handed out and not got back
Outstanding(w) == w.pool.got - Len(w.pool.puts)

\* C25: a Read in state SeekDisabled that called the source leaves the
\* engine without a chunk and the pool with every chunk back; and a call made
\* in state SeekDisabled on an engine that holds no chunk, Close included,
\* neither gets a chunk from the pool nor puts one back.
C25_NoChunksAfterPassThrough ==
  /\ (ret.op = "Read" /\ WasSeekDisabled /\ reader.nreads >= 1)
       => Held(World) = {} /\ Outstanding(World) = 0
  /\ (ret.op # "none" /\ ret.pre.b.isSeekerDisabled
        /\ Held(ret.pre) = {} /\ Outstanding(ret.pre) = 0)
       => /\ pool = ret.pre.pool
          /\ Held(World) = {}

\* bytes were read straight from the source by a Read on an engine that had
\* given back, in an earlier Read, the chunks DisableSeeker had left it
C25_Witness ==
  /\ ret.op = "Read" /\ WasSeekDisabled /\ reader.nreads >= 1 /\ ret.n >= 1
  /\ Held(ret.pre) = {} /\ Outstanding(World) = 0
  /\ pool.got >= 1

\* C26: a Read on an open engine calls the source's Read at most once,
\* whatever the length of p and the chunk size.
C26_OneSourceReadPerRead ==
  (ret.op = "Read" /\ WasOpen) => reader.nreads <= 1

\* C27: with the pool of the repository, whose Get never waits, and no
\* DisableSeeker: in every interleaving, when Close has returned and no call
\* is in flight, the engine holds no chunk and the pool has every chunk back.
C27_NoChunkAfterClose ==
  (/\ pool.limit = 0 /\ b.isClosed /\ ~b.isSeekerDisabled
   /\ \A t \in Threads : th[t].pc = "idle")
    => Held(World) = {} /\ Outstanding(World) = 0

C29_ReportedPosIsNextByte ==
  (ErrorFree /\ ~ret.pre.b.isClosed /\ ret.op = "Seek" /\ ret.err # NoErr)
    => ret.pos = ret.from

\* C30: over the same content and after the same sequential history of Read,
\* Seek (targets in 0..L), DisableSeeker and Close calls, the engine and the
\* adapter return the same results of every call: the same count and bytes
\* of a Read into a p with len(p) > 0, the same position of a Seek, and the
\* same error.
C30_EngineMatchesAdapter ==
  (ret.op \in {"Seek", "Close"} \/ (ret.op = "Read" /\ ret.plen >= 1))
    => /\ ret.n = ret.adapter.n
       /\ ret.bytes = ret.adapter.bytes
       /\ ret.pos = ret.adapter.pos
       /\ ret.err = ret.adapter.err

\* C31: in every interleaving of Shutdown with Run and RunAsync calls, when
\* Shutdown has returned nil no function handed to the manager is running:
\* every registered non-nil function has returned, also one whose Run or
\* RunAsync passed the load of isShutdown before Shutdown set it.
C31_NoFuncRunsAfterShutdown ==
  (ret.op = "Shutdown" /\ ret.err = NoErr)
    => \A i \in 1..Len(fm.tasks) :
         fm.tasks[i].fn # "nil" => fm.tasks[i].returned
====
